---- MODULE Spec2Model ----
(***************************************************************************)
(* Device-management getters (state/getters.js) and the constant catalogs  *)
(* (PageNames, ContentWizardPages, TaskTypes, TaskStatuses, TransferTypes). *)
(*                                                                         *)
(* JavaScript values are tagged records:                                   *)
(*   [t |-> "undefined"]                      undefined                    *)
(*   [t |-> "string", s |-> "a"]              a primitive string           *)
(*   [t |-> "object", f |-> fields]           an object, fields: name->val *)
(*   [t |-> "array", id |-> n, items |-> sq]  an array with identity n     *)
(*   [t |-> "function"]                       a function value             *)
(* The result of evaluating an expression is a completion record:          *)
(*   [kind |-> "return", value |-> v]  or  [kind |-> "throw", value |-> e] *)
(***************************************************************************)
EXTENDS Integers, Sequences, FiniteSets, TLC

\* ------------------------------------------------------------------ bounds
MaxDrives == 2

\* ---------------------------------------------------------------- JS values
Undef == [t |-> "undefined"]
Str(s) == [t |-> "string", s |-> s]
Obj(fields) == [t |-> "object", f |-> fields]
Arr(id, items) == [t |-> "array", id |-> id, items |-> items]
FnValue == [t |-> "function"]
TypeError == [t |-> "TypeError"]
NoFields == [n \in {} |-> Undef]

Return(v) == [kind |-> "return", value |-> v]
Throw(e) == [kind |-> "throw", value |-> e]
None == [kind |-> "none", value |-> Undef]

\* identity of an array created by evaluating the literal [] in a call
FreshId == 0

\* --------------------------------------------------------- constant catalogs
\* mutant: a token misspelt
PageNames_typo ==
  [ MANAGE_CONTENT_PAGE |-> "MANAGE_CONTENT_PAGE",
    MANAGE_PERMISSIONS_PAGE |-> "MANAGE_PERMISSIONS_PAGE",
    USER_PERMISSIONS_PAGE |-> "USER_PERMISSION_PAGE" ]

PageNames ==
  [ MANAGE_CONTENT_PAGE |-> "MANAGE_CONTENT_PAGE",
    MANAGE_PERMISSIONS_PAGE |-> "MANAGE_PERMISSIONS_PAGE",
    USER_PERMISSIONS_PAGE |-> "USER_PERMISSIONS_PAGE" ]

ContentWizardPages ==
  [ CHOOSE_IMPORT_SOURCE |-> "CHOOSE_IMPORT_SOURCE",
    EXPORT |-> "EXPORT",
    IMPORT_LOCAL |-> "IMPORT_LOCAL",
    IMPORT_NETWORK |-> "IMPORT_NETWORK",
    AVAILABLE_CHANNELS |-> "AVAILABLE_CHANNELS" ]

TaskTypes ==
  [ REMOTE_IMPORT |-> "remoteimport",
    LOCAL_IMPORT |-> "localimport",
    LOCAL_EXPORT |-> "localexport",
    DELETE_CHANNEL |-> "deletechannel" ]

TaskStatuses ==
  [ IN_PROGRESS |-> "INPROGRESS",
    COMPLETED |-> "COMPLETED",
    FAILED |-> "FAILED",
    PENDING |-> "PENDING",
    RUNNING |-> "RUNNING",
    QUEUED |-> "QUEUED",
    SCHEDULED |-> "SCHEDULED" ]

\* mutant: a transfer token drifts away from its task-type token
TransferTypes_drift ==
  [ LOCALIMPORT |-> "localimport",
    REMOTEIMPORT |-> "remoteimport",
    LOCALEXPORT |-> "local_export" ]

TransferTypes ==
  [ LOCALIMPORT |-> "localimport",
    REMOTEIMPORT |-> "remoteimport",
    LOCALEXPORT |-> "localexport" ]

\* the module's exports, as bound when the module is loaded
Catalogs ==
  [ PageNames |-> PageNames,
    ContentWizardPages |-> ContentWizardPages,
    TaskTypes |-> TaskTypes,
    TaskStatuses |-> TaskStatuses,
    TransferTypes |-> TransferTypes ]

\* ------------------------------------------------------------------- state
VARIABLES
  state,      \* the state tree object the store owns (mutated in place)
  catalog,    \* the loaded constant catalogs
  f,          \* the lookup closure last returned by driveChannelList
  lastCall,   \* the accessor call whose result the caller holds
  ret,        \* completion of that call; None when no call is pending
  changedSinceCapture  \* history: driveList changed since f was created

vars == <<state, catalog, f, lastCall, ret, changedSinceCapture>>

\* the closure variable `state` holds a reference to the store's state tree
RootRef == [ref |-> "state"]
Deref(env) == IF "ref" \in DOMAIN env THEN state ELSE env

\* ------------------------------------------------- property access, a.b
Get(c, name) ==
  IF c.kind = "throw" THEN c
  ELSE IF c.value.t = "undefined" THEN Throw(TypeError)
  ELSE IF c.value.t = "object" /\ name \in DOMAIN c.value.f
       THEN Return(c.value.f[name])
  ELSE Return(Undef)

Truthy(v) == v.t # "undefined"

\* ----------------------------------------------------------------- getters
\* mutant: state.pageState && state.pageState.wizardState
wizardState_guarded(st) ==
  IF "pageState" \in DOMAIN st.f
  THEN Get(Get(Return(st), "pageState"), "wizardState")
  ELSE Return(Undef)

wizardState(st) == Get(Get(Return(st), "pageState"), "wizardState")

\* mutant: returns a copy, [...nodes]
selectedNodes_copy(st) ==
  LET c == Get(Get(wizardState(st), "selectedItems"), "nodes")
  IN IF c.kind = "return" /\ c.value.t = "array"
     THEN Return(Arr(FreshId, c.value.items)) ELSE c

selectedNodes(st) == Get(Get(wizardState(st), "selectedItems"), "nodes")

availableChannels(st) == Get(wizardState(st), "availableChannels")

installedChannelList(st) == Get(wizardState(st), "channelList")

\* mutant: the last matching entry wins
findFrom_last(items, i, driveId) ==
  LET hits == {j \in i..Len(items) : Get(Return(items[j]), "id").value = driveId}
  IN IF hits = {} THEN Return(Undef)
     ELSE Return(items[CHOOSE j \in hits : \A k \in hits : k <= j])

\* Array.prototype.find with the predicate d => d.id === driveId
RECURSIVE findFrom(_, _, _)
findFrom(items, i, driveId) ==
  IF i > Len(items) THEN Return(Undef)
  ELSE LET id == Get(Return(items[i]), "id")
       IN IF id.kind = "throw" THEN id
          ELSE IF id.value = driveId THEN Return(items[i])
          ELSE findFrom(items, i + 1, driveId)

find(c, driveId) ==
  IF c.kind = "throw" THEN c
  ELSE IF c.value.t # "array" THEN Throw(TypeError)
  ELSE findFrom(c.value.items, 1, driveId)

\* mutant: the closure keeps the tree as it was when it was created
driveChannelList_snapshot(stRef) ==
  [fn |-> "getListByDriveId", env |-> Deref(stRef)]

driveChannelList(stRef) == [fn |-> "getListByDriveId", env |-> stRef]

\* mutant: return match.metadata.channels.slice()
getListByDriveId_copy(closure, driveId) ==
  LET match == find(Get(wizardState(Deref(closure.env)), "driveList"), driveId)
      c == Get(Get(match, "metadata"), "channels")
  IN IF match.kind = "throw" THEN match
     ELSE IF Truthy(match.value)
          THEN (IF c.kind = "return" /\ c.value.t = "array"
                THEN Return(Arr(FreshId, c.value.items)) ELSE c)
     ELSE Return(Arr(FreshId, <<>>))

\* mutant: return match.metadata.channels, without the ternary
getListByDriveId_nodefault(closure, driveId) ==
  LET match == find(Get(wizardState(Deref(closure.env)), "driveList"), driveId)
  IN Get(Get(match, "metadata"), "channels")

\* mutant: try { ... } catch (e) { return []; }
getListByDriveId_soft(closure, driveId) ==
  LET match == find(Get(wizardState(Deref(closure.env)), "driveList"), driveId)
      c == IF match.kind = "throw" THEN match
           ELSE IF Truthy(match.value)
                THEN Get(Get(match, "metadata"), "channels")
           ELSE Return(Arr(FreshId, <<>>))
  IN IF c.kind = "throw" THEN Return(Arr(FreshId, <<>>)) ELSE c

getListByDriveId(closure, driveId) ==
  LET match == find(Get(wizardState(Deref(closure.env)), "driveList"), driveId)
  IN IF match.kind = "throw" THEN match
     ELSE IF Truthy(match.value)
          THEN Get(Get(match, "metadata"), "channels")
     ELSE Return(Arr(FreshId, <<>>))

NoClosure == [fn |-> "none", env |-> RootRef]
NoCall == [fn |-> "none", arg |-> Undef]

\* ------------------------------------------- state trees the owner can build
DriveIds == {"a", "b"}
LookupIds == {"a", "b", "c"}
ChannelArrays == {Arr(11, <<"x">>), Arr(12, <<"y", "z">>), Arr(13, <<>>)}
NodeArrays == {Arr(21, <<>>), Arr(22, <<"n1", "n2">>)}
AvailableArr == Arr(31, <<"ch1", "ch2">>)
InstalledArr == Arr(32, <<"ch2">>)
DriveListId == 1

DriveOptions ==
  { Obj([id |-> Str(i), metadata |-> Obj([channels |-> ch])]) :
      i \in DriveIds, ch \in ChannelArrays }
  \cup { Obj([id |-> Str(i)]) : i \in DriveIds }

InitialWizardState ==
  Obj([ selectedItems |-> Obj([nodes |-> Arr(21, <<>>)]),
        availableChannels |-> AvailableArr,
        driveList |-> Arr(DriveListId, <<>>),
        channelList |-> InstalledArr ])

HasPageState(st) == "pageState" \in DOMAIN st.f
HasWizardState(st) ==
  HasPageState(st) /\ "wizardState" \in DOMAIN st.f.pageState.f
HasDriveList(st) ==
  HasWizardState(st) /\ "driveList" \in DOMAIN st.f.pageState.f.wizardState.f
Drives(st) == st.f.pageState.f.wizardState.f.driveList.items

WithWizardState(ws) == Obj([pageState |-> Obj([wizardState |-> ws])])
WithWizardField(st, name, v) ==
  LET ws == st.f.pageState.f.wizardState
  IN WithWizardState(Obj([n \in DOMAIN ws.f \cup {name} |->
                            IF n = name THEN v ELSE ws.f[n]]))
WithDrives(st, items) ==
  WithWizardField(st, "driveList", Arr(DriveListId, items))

Idle == ret.kind = "none"

Init ==
  /\ state = WithWizardState(InitialWizardState)
  /\ catalog = Catalogs
  /\ f = NoClosure
  /\ lastCall = NoCall
  /\ ret = None
  /\ changedSinceCapture = FALSE

\* ------------------------------------------------ the external state owner
Mutated(st) ==
  /\ state' = st
  /\ st # state
  /\ changedSinceCapture' =
       (changedSinceCapture
          \/ Get(wizardState(st), "driveList")
               # Get(wizardState(state), "driveList"))
  /\ UNCHANGED <<catalog, f, lastCall, ret>>

AddDrive ==
  /\ Idle /\ HasDriveList(state) /\ Len(Drives(state)) < MaxDrives
  /\ \E d \in DriveOptions : Mutated(WithDrives(state, Append(Drives(state), d)))

RemoveDrive ==
  /\ Idle /\ HasDriveList(state)
  /\ \E i \in 1..Len(Drives(state)) :
       Mutated(WithDrives(state,
         SubSeq(Drives(state), 1, i - 1)
           \o SubSeq(Drives(state), i + 1, Len(Drives(state)))))

ReplaceDrive ==
  /\ Idle /\ HasDriveList(state)
  /\ \E i \in 1..Len(Drives(state)), d \in DriveOptions :
       Mutated(WithDrives(state, [Drives(state) EXCEPT ![i] = d]))

SetSelectedNodes ==
  /\ Idle /\ HasWizardState(state)
  /\ \E n \in NodeArrays :
       Mutated(WithWizardField(state, "selectedItems", Obj([nodes |-> n])))

DeleteDriveList ==
  /\ Idle /\ HasDriveList(state)
  /\ LET ws == state.f.pageState.f.wizardState
     IN Mutated(WithWizardState(
          Obj([n \in DOMAIN ws.f \ {"driveList"} |-> ws.f[n]])))

ResetPageState ==
  /\ Idle
  /\ Mutated(Obj([pageState |-> Obj(NoFields)]))

DeletePageState ==
  /\ Idle
  /\ Mutated(Obj(NoFields))

StartWizard ==
  /\ Idle
  /\ Mutated(WithWizardState(InitialWizardState))

\* ------------------------------------------------------------ accessor calls
Called(fn, arg, completion) ==
  /\ Idle
  /\ lastCall' = [fn |-> fn, arg |-> arg]
  /\ ret' = completion

CallWizardState ==
  /\ Called("wizardState", Undef, wizardState(state))
  /\ UNCHANGED <<state, catalog, f, changedSinceCapture>>

CallSelectedNodes ==
  /\ Called("selectedNodes", Undef, selectedNodes(state))
  /\ UNCHANGED <<state, catalog, f, changedSinceCapture>>

CallAvailableChannels ==
  /\ Called("availableChannels", Undef, availableChannels(state))
  /\ UNCHANGED <<state, catalog, f, changedSinceCapture>>

CallInstalledChannelList ==
  /\ Called("installedChannelList", Undef, installedChannelList(state))
  /\ UNCHANGED <<state, catalog, f, changedSinceCapture>>

CallDriveChannelList ==
  /\ Called("driveChannelList", Undef, Return(FnValue))
  /\ f' = driveChannelList(RootRef)
  /\ changedSinceCapture' = FALSE
  /\ UNCHANGED <<state, catalog>>

\* mutant: the lookup records the requested drive in the wizard state
CallGetListByDriveId_write ==
  /\ f.fn = "getListByDriveId"
  /\ \E driveId \in LookupIds :
       /\ Called("getListByDriveId", Str(driveId),
                 getListByDriveId(f, Str(driveId)))
       /\ state' = IF HasWizardState(state)
                   THEN WithWizardField(state, "selectedDrive", Str(driveId))
                   ELSE state
  /\ UNCHANGED <<catalog, f, changedSinceCapture>>

CallGetListByDriveId ==
  /\ f.fn = "getListByDriveId"
  /\ \E driveId \in LookupIds :
       Called("getListByDriveId", Str(driveId),
              getListByDriveId(f, Str(driveId)))
  /\ UNCHANGED <<state, catalog, f, changedSinceCapture>>

\* the caller is done with the value it was handed
Resume ==
  /\ ~Idle
  /\ ret' = None
  /\ lastCall' = NoCall
  /\ UNCHANGED <<state, catalog, f, changedSinceCapture>>

Next ==
  \/ AddDrive
  \/ RemoveDrive
  \/ ReplaceDrive
  \/ SetSelectedNodes
  \/ DeleteDriveList
  \/ ResetPageState
  \/ DeletePageState
  \/ StartWizard
  \/ CallWizardState
  \/ CallSelectedNodes
  \/ CallAvailableChannels
  \/ CallInstalledChannelList
  \/ CallDriveChannelList
  \/ CallGetListByDriveId
  \/ Resume

Spec == Init /\ [][Next]_vars

TypeOK ==
  /\ state.t = "object"
  /\ ret.kind \in {"none", "return", "throw"}
  /\ changedSinceCapture \in BOOLEAN

\* ------------------------------------------------ vocabulary of the properties
Lookup == lastCall.fn = "getListByDriveId"
WS(st) == st.f.pageState.f.wizardState
MatchesOf(st, id) == {i \in 1..Len(Drives(st)) : Drives(st)[i].f.id = id}
FirstMatch(st, id) ==
  CHOOSE i \in MatchesOf(st, id) : \A j \in MatchesOf(st, id) : i <= j
UniqueIds(st) ==
  \A i, j \in 1..Len(Drives(st)) :
    Drives(st)[i].f.id = Drives(st)[j].f.id => i = j
HasMetadata(d) == "metadata" \in DOMAIN d.f
ChannelsOf(d) == d.f.metadata.f.channels
EmptyResult == Return(Arr(FreshId, <<>>))
Failure == Throw(TypeError)
Values(c) == {c[k] : k \in DOMAIN c}
SelfNamed(c) == \A k \in DOMAIN c : c[k] = k

\* C1: when the ids of driveList are pairwise distinct, a lookup by the id of
\* an entry returns that very entry's metadata.channels array (same array
\* object, same elements), whatever its position in the list.
C1_UniqueIdLookup ==
  (Lookup /\ HasDriveList(state) /\ UniqueIds(state)) =>
    \A i \in 1..Len(Drives(state)) :
      (Drives(state)[i].f.id = lastCall.arg /\ HasMetadata(Drives(state)[i]))
        => ret = Return(ChannelsOf(Drives(state)[i]))

\* the scenario of the spec: [{a, [x]}, {b, [y, z]}] looked up by 'b'
C1_Witness ==
  /\ Lookup /\ HasDriveList(state) /\ UniqueIds(state)
  /\ Len(Drives(state)) = 2
  /\ lastCall.arg = Str("b")
  /\ Drives(state)[1].f.id = Str("a")
  /\ Drives(state)[2].f.id = Str("b")
  /\ HasMetadata(Drives(state)[1]) /\ HasMetadata(Drives(state)[2])
  /\ ChannelsOf(Drives(state)[1]) = Arr(11, <<"x">>)
  /\ ret = Return(Arr(12, <<"y", "z">>))

\* C2: a lookup by an id that no driveList entry carries returns a new empty
\* array and does not throw, the empty driveList included.
C2_UnknownIdLookup ==
  (Lookup /\ HasDriveList(state) /\ MatchesOf(state, lastCall.arg) = {})
    => ret = EmptyResult

C2_Witness ==
  /\ Lookup /\ HasDriveList(state)
  /\ Len(Drives(state)) >= 1
  /\ MatchesOf(state, lastCall.arg) = {}
  /\ ret = EmptyResult

\* C3 as stated: in all five catalogs every key maps to its own name.
C3_AllSelfNamed ==
  \A c \in DOMAIN catalog : SelfNamed(catalog[c])

\* C3 as amended: PageNames and ContentWizardPages map every key to its own
\* name; TaskStatuses does so for every key but IN_PROGRESS, whose token is
\* INPROGRESS; no key of TaskTypes or TransferTypes maps to its own name.
C3_SelfNamedWhereItHolds ==
  /\ SelfNamed(catalog.PageNames)
  /\ SelfNamed(catalog.ContentWizardPages)
  /\ \A k \in DOMAIN catalog.TaskStatuses :
       (catalog.TaskStatuses[k] = k) <=> (k # "IN_PROGRESS")
  /\ catalog.TaskStatuses.IN_PROGRESS = "INPROGRESS"
  /\ \A k \in DOMAIN catalog.TaskTypes : catalog.TaskTypes[k] # k
  /\ \A k \in DOMAIN catalog.TransferTypes : catalog.TransferTypes[k] # k

C3_Witness ==
  /\ DOMAIN catalog = {"PageNames", "ContentWizardPages", "TaskTypes",
                       "TaskStatuses", "TransferTypes"}
  /\ Cardinality(DOMAIN catalog.PageNames) = 3
  /\ Cardinality(DOMAIN catalog.ContentWizardPages) = 5
  /\ Cardinality(DOMAIN catalog.TaskTypes) = 4
  /\ Cardinality(DOMAIN catalog.TaskStatuses) = 7
  /\ Cardinality(DOMAIN catalog.TransferTypes) = 3
  /\ catalog.TaskTypes.REMOTE_IMPORT = "remoteimport"

\* C4: every TransferTypes token is a TaskTypes token, and the DELETE_CHANNEL
\* token is the only TaskTypes token that is not a TransferTypes token.
C4_TransferWithinTask ==
  /\ Values(catalog.TransferTypes) \subseteq Values(catalog.TaskTypes)
  /\ Values(catalog.TaskTypes) \ Values(catalog.TransferTypes)
       = {catalog.TaskTypes.DELETE_CHANNEL}

C4_Witness ==
  /\ Cardinality(Values(catalog.TransferTypes)) = 3
  /\ Cardinality(Values(catalog.TaskTypes)) = 4
  /\ catalog.TaskTypes.DELETE_CHANNEL = "deletechannel"

\* C5: on a state that has a wizardState, selectedNodes, availableChannels and
\* installedChannelList return the stored arrays themselves (same identity,
\* same elements in the same order) and wizardState returns the stored object.
C5_PassThrough ==
  HasWizardState(state) =>
    /\ lastCall.fn = "wizardState" => ret = Return(WS(state))
    /\ lastCall.fn = "selectedNodes"
         => ret = Return(WS(state).f.selectedItems.f.nodes)
    /\ lastCall.fn = "availableChannels"
         => ret = Return(WS(state).f.availableChannels)
    /\ lastCall.fn = "installedChannelList"
         => ret = Return(WS(state).f.channelList)

\* the scenario of the spec: nodes = [n1, n2]
C5_Witness ==
  /\ lastCall.fn = "selectedNodes"
  /\ HasWizardState(state)
  /\ WS(state).f.selectedItems.f.nodes = Arr(22, <<"n1", "n2">>)
  /\ ret = Return(Arr(22, <<"n1", "n2">>))

\* C6: a step in which an accessor (or the lookup function) is called and
\* returns leaves the state tree and the constant catalogs as they were.
C6_AccessorsDoNotWrite ==
  [][(Idle /\ ~Idle') => (state' = state /\ catalog' = catalog)]_vars

\* a lookup that hit, on a list of two drives, has returned
C6_Witness ==
  /\ Lookup /\ HasDriveList(state)
  /\ Len(Drives(state)) >= 2
  /\ MatchesOf(state, lastCall.arg) # {}
  /\ ret.kind = "return"
  /\ catalog = Catalogs

\* C7 as stated: wizardState(state) throws whenever state.pageState.wizardState
\* is absent, be it pageState or only its wizardState field that is missing.
C7_AbsentAlwaysThrows ==
  (lastCall.fn = "wizardState" /\ ~HasWizardState(state)) => ret.kind = "throw"

\* C7 as amended: wizardState(state) throws a TypeError when pageState is
\* absent; when pageState is present without a wizardState field it returns
\* undefined and throws nothing.
C7_ThrowsOnlyWithoutPageState ==
  lastCall.fn = "wizardState" =>
    /\ ~HasPageState(state) => ret = Failure
    /\ (HasPageState(state) /\ ~HasWizardState(state)) => ret = Return(Undef)

C7_Witness ==
  /\ lastCall.fn = "wizardState"
  /\ ~HasPageState(state)
  /\ ret = Failure

\* C8: when several driveList entries carry the requested id, the lookup
\* answers from the one with the lowest index: it returns that entry's
\* metadata.channels, or fails as the access to it fails.
C8_FirstMatchWins ==
  (Lookup /\ HasDriveList(state)
     /\ Cardinality(MatchesOf(state, lastCall.arg)) >= 2) =>
    LET d == Drives(state)[FirstMatch(state, lastCall.arg)]
    IN ret = IF HasMetadata(d) THEN Return(ChannelsOf(d)) ELSE Failure

C8_Witness ==
  /\ Lookup /\ HasDriveList(state)
  /\ Len(Drives(state)) = 2
  /\ Drives(state)[1].f.id = lastCall.arg
  /\ Drives(state)[2].f.id = lastCall.arg
  /\ HasMetadata(Drives(state)[1]) /\ HasMetadata(Drives(state)[2])
  /\ ChannelsOf(Drives(state)[1]) # ChannelsOf(Drives(state)[2])
  /\ ret = Return(ChannelsOf(Drives(state)[1]))

\* C9: a lookup made after the owner changed the drive list since the lookup
\* function was created answers from the drive list as it is when the lookup
\* is made.
C9_ReadsAtInvocation ==
  (Lookup /\ changedSinceCapture) =>
    ret = IF ~HasDriveList(state) THEN Failure
          ELSE IF MatchesOf(state, lastCall.arg) = {} THEN EmptyResult
          ELSE LET d == Drives(state)[FirstMatch(state, lastCall.arg)]
               IN IF HasMetadata(d) THEN Return(ChannelsOf(d)) ELSE Failure

C9_Witness ==
  /\ Lookup /\ changedSinceCapture
  /\ HasDriveList(state)
  /\ MatchesOf(state, lastCall.arg) # {}
  /\ ret.kind = "return"
  /\ ret.value.t = "array"
  /\ ret.value.id # FreshId

\* C10: the lookup returns its new empty array only when the drive list exists
\* and no entry carries the id; without wizardState or driveList it throws,
\* and when the matching entry has no metadata it throws.
C10_EmptyOnlyOnMiss ==
  Lookup =>
    /\ ret = EmptyResult
         => (HasDriveList(state) /\ MatchesOf(state, lastCall.arg) = {})
    /\ ~HasDriveList(state) => ret = Failure
    /\ (HasDriveList(state) /\ MatchesOf(state, lastCall.arg) # {}
          /\ ~HasMetadata(Drives(state)[FirstMatch(state, lastCall.arg)]))
         => ret = Failure

C10_Witness ==
  /\ Lookup /\ HasDriveList(state)
  /\ MatchesOf(state, lastCall.arg) # {}
  /\ ~HasMetadata(Drives(state)[FirstMatch(state, lastCall.arg)])
  /\ ret = Failure
====
